---- MODULE Spec2Model ----
(***************************************************************************)
(* StorageManager (js/storage.js): the storage layer of the offline note   *)
(* app, IndexedDB with a localStorage fallback.                            *)
(*                                                                         *)
(* JavaScript is single threaded: a call runs synchronously up to its      *)
(* first await, the rest runs as promise continuations (microtasks), and   *)
(* engine events (IndexedDB request and open events) are tasks that run    *)
(* only when no microtask is pending.  One action is one such run.         *)
(*                                                                         *)
(* Values.  A note is a function from the keys it has to their values.     *)
(* Text is a sequence of characters, Undef is the JavaScript undefined of  *)
(* a text field, an id 'note_<ms>_<random>' is the pair <<ms, random>>,    *)
(* and the ISO string of an instant is the pair <<"ISO", ms>>.             *)
(***************************************************************************)
EXTENDS Integers, Sequences, FiniteSets, TLC

VARIABLES
    isIndexedDBSupported,  \* this.isIndexedDBSupported
    db,                    \* this.db: "null" or "open"
    idb,                   \* the records of the IndexedDB object store 'notes'
    objectStoreNames,      \* the object stores of the database 'OfflineNotesDB'
    ls,                    \* localStorage['offline_notes']
    storageDefined,        \* typeof Storage !== 'undefined'
    now,                   \* the last reading of the clock (Date.now(), new Date())
    rng,                   \* state of the Math.random() stream
    calls,                 \* the calls of the facade, one per slot
    openQueue,             \* pending indexedDB.open requests, in order
    txQueue,               \* pending object store requests, in order
    held,                  \* the bundle the caller keeps from exportData()
    awaitsInit,            \* the caller lets init() settle before it calls
    nmNotes,               \* NotesManager: this.notes
    currentNote,           \* NotesManager: this.currentNote, Nil for null
    titleInput,            \* the value of .note-title-input, Nil when no editor is shown
    selecting,             \* per handler, the id selectNote picks once its save is done
    raced                  \* per handler, the current notes deleted while it was in flight

vars == <<isIndexedDBSupported, db, idb, objectStoreNames, ls, storageDefined, now, rng,
          calls, openQueue, txQueue, held, awaitsInit,
          nmNotes, currentNote, titleInput, selecting, raced>>

\* the state of the NotesManager, and with it what the calls of the facade,
\* the opening of the database apart, leave as it is
env == <<storageDefined, awaitsInit, objectStoreNames,
         nmNotes, currentNote, titleInput, selecting, raced>>

(***************************************************************************)
(* Bounds                                                                  *)
(***************************************************************************)
MaxClock == 2     \* Date.now() ranges over 1..MaxClock
MaxRand == 2      \* number of Math.random() draws

Callers == {"c1"}
\* a second caller, whose calls run while those of the first are in flight
Peers == {"c2"}
\* the event handlers of the NotesManager that may be running at a time
Handlers == {"h1", "h2", "h3"}
Slots == {"ctor"} \cup Callers \cup Peers \cup Handlers

(***************************************************************************)
(* Values                                                                  *)
(***************************************************************************)
Nil == <<>>
Undef == <<"undefined">>
TextFields == {"title", "content", "folder"}

UntitledNote == <<"U","n","t","i","t","l","e","d"," ","N","o","t","e">>
EmptyText == <<>>
DefaultFolder == <<"d","e","f","a","u","l","t">>

TitleA == <<"a">>
TitleB == <<"A","b">>
FolderW == <<"w">>

CallerId == <<0, 0>>
MissingId == <<0, 1>>

EmptyNote == [k \in {} |-> Nil]

\* note[k], undefined when the key is absent
Get(n, k) == IF k \in DOMAIN n THEN n[k] ELSE Undef

\* { ...a, ...b }
Merge(a, b) ==
    [k \in DOMAIN a \cup DOMAIN b |-> IF k \in DOMAIN b THEN b[k] ELSE a[k]]

\* !noteData[k]
Falsy(n, k) ==
    \/ k \notin DOMAIN n
    \/ k \in TextFields /\ (n[k] = Undef \/ n[k] = EmptyText)

OrElse(n, k, dflt) == IF Falsy(n, k) THEN dflt ELSE n[k]

\* new Date(ms).toISOString(): the string that names the instant
toISOString(ms) == <<"ISO", ms>>

\* new Date(s).getTime() of such a string
getTime(s) == s[2]

\* JSON.parse(JSON.stringify(note)): a key whose value is undefined is
\* dropped, strings and arrays of strings come back as they were
JsonNote(n) ==
    [k \in {f \in DOMAIN n : n[f] # Undef} |-> n[k]]

JsonNotes(s) == [i \in 1..Len(s) |-> JsonNote(s[i])]

IdLess(a, b) == a[1] < b[1] \/ (a[1] = b[1] /\ a[2] < b[2])

\* the records of a set in key order
RECURSIVE KeyOrder(_)
KeyOrder(S) ==
    IF S = {} THEN <<>>
    ELSE LET m == CHOOSE n \in S : \A o \in S : o = n \/ IdLess(n.id, o.id)
         IN  <<m>> \o KeyOrder(S \ {m})

Range(s) == {s[i] : i \in 1..Len(s)}

\* 'note_' + Date.now() + '_' + Math.random().toString(36).substr(2, 9)
generateId(t, r) == <<t, r>>

\* the note createNote builds from noteData, an id and two clock readings
BuildNote(noteData, id, t1, t2) ==
    Merge([id        |-> id,
           title     |-> OrElse(noteData, "title", UntitledNote),
           content   |-> OrElse(noteData, "content", EmptyText),
           tags      |-> OrElse(noteData, "tags", <<>>),
           folder    |-> OrElse(noteData, "folder", DefaultFolder),
           createdAt |-> toISOString(t1),
           updatedAt |-> toISOString(t2)],
          noteData)

\* updateNote replacing the record by the updates instead of merging them
BuildUpdate_Replace(existingNote, updates, t) ==
    Merge(Merge([id |-> existingNote.id], updates), [updatedAt |-> toISOString(t)])

\* the note updateNote builds
BuildUpdate(existingNote, updates, t) ==
    Merge(Merge(existingNote, updates), [updatedAt |-> toISOString(t)])

(***************************************************************************)
(* localStorage['offline_notes']                                           *)
(***************************************************************************)
NoBlob == [kind |-> "null", notes |-> <<>>]
InvalidJson == [kind |-> "invalid", notes |-> <<>>]
Blob(notes) == [kind |-> "json", notes |-> JsonNotes(notes)]

\* getNotesFromLocalStorage(): ok is FALSE when it throws
getNotesFromLocalStorage ==
    IF ~storageDefined THEN [ok |-> FALSE, notes |-> <<>>]
    ELSE IF ls.kind = "null" THEN [ok |-> TRUE, notes |-> <<>>]
    ELSE IF ls.kind = "invalid" THEN [ok |-> FALSE, notes |-> <<>>]
    ELSE [ok |-> TRUE, notes |-> ls.notes]

\* notes.find(n => n.id === id), Nil for undefined
Find(notes, id) ==
    IF \E i \in 1..Len(notes) : notes[i].id = id
    THEN notes[CHOOSE i \in 1..Len(notes) :
                 /\ notes[i].id = id
                 /\ \A j \in 1..(i - 1) : notes[j].id # id]
    ELSE Nil

\* notes.findIndex(n => n.id === id), 0 for -1
FindIndex(notes, id) ==
    IF \E i \in 1..Len(notes) : notes[i].id = id
    THEN CHOOSE i \in 1..Len(notes) :
                 /\ notes[i].id = id
                 /\ \A j \in 1..(i - 1) : notes[j].id # id
    ELSE 0

\* store.put(note)
IdbPut(note) == {n \in idb : n.id # note.id} \cup {note}

(***************************************************************************)
(* Calls                                                                   *)
(***************************************************************************)
InFlight(c) == calls[c].pc \in {"open", "idb", "micro"}
Settled(c) == calls[c].pc \in {"resolved", "rejected"}
\* the call a handler of the NotesManager awaits has settled and the handler
\* has not run on yet
Pending(c) == c \in Handlers /\ Settled(c)

MicrotaskPending == \E c \in Slots : calls[c].pc = "micro" \/ Pending(c)

\* the facade is Ready: no init run is in flight and the constructor's has resolved
\* new StorageManager() has returned the facade
Constructed == calls["ctor"].op = "init"

Ready ==
    /\ calls["ctor"].pc = "resolved"
    /\ \A c \in Callers : ~(calls[c].op = "init" /\ InFlight(c))

NoBundle == [hasNotes |-> FALSE, isArray |-> FALSE, notes |-> <<>>,
             version |-> 0, exportDate |-> toISOString(0)]

IdleCall == [op |-> "none", pc |-> "idle", k |-> "", arg |-> Nil, upd |-> Nil,
             local |-> Nil, i |-> 0, ret |-> Nil, err |-> "", ready |-> FALSE,
             rt |-> 0, rtStore |-> {}, before |-> {}]

\* the notes of the active backend, as a set
StoreNotes == IF isIndexedDBSupported THEN idb ELSE Range(ls.notes)
StoreSize == IF isIndexedDBSupported THEN Cardinality(idb) ELSE Len(ls.notes)

\* the bundle the caller holds when the previous call of slot c has settled
HeldNow(c) ==
    IF calls[c].op = "exportData" /\ calls[c].pc = "resolved"
    THEN calls[c].ret ELSE held

\* the caller's progress through b = exportData(), clearAllData(), importData(b)
RtNext(c, op, arg) ==
    IF op = "exportData" THEN 1
    ELSE IF /\ op = "clearAllData"
            /\ calls[c].op = "exportData" /\ calls[c].pc = "resolved"
         THEN 2
    ELSE IF /\ op = "importData"
            /\ calls[c].op = "clearAllData" /\ calls[c].pc = "resolved"
            /\ calls[c].rt = 2 /\ arg = held
         THEN 3
    ELSE 0

NewCall(c, op, arg, upd) ==
    [IdleCall EXCEPT !.op = op, !.arg = arg, !.upd = upd, !.ready = Ready,
                     !.rt = RtNext(c, op, arg),
                     !.rtStore = IF op = "exportData" THEN StoreNotes
                                 ELSE IF RtNext(c, op, arg) # 0 THEN calls[c].rtStore
                                 ELSE {},
                     !.before = IF op = "importData" THEN StoreNotes ELSE {}]

Resolve(call, v) ==
    [call EXCEPT !.pc = "resolved", !.ret = v, !.k = "", !.local = Nil, !.i = 0]
Reject(call, e) ==
    [call EXCEPT !.pc = "rejected", !.err = e, !.k = "", !.local = Nil, !.i = 0]
Await(call, k, v) == [call EXCEPT !.pc = "micro", !.k = k, !.local = v]
Request(call, k) == [call EXCEPT !.pc = "idb", !.k = k]

(***************************************************************************)
(* Inputs                                                                  *)
(***************************************************************************)
dbVersion == 1
storeName == "notes"

NoteInputs ==
    { EmptyNote,
      [id |-> CallerId, title |-> Undef, folder |-> FolderW, createdAt |-> toISOString(0)] }

UpdateInputs ==
    { [title |-> TitleB],
      [title |-> TitleB, updatedAt |-> toISOString(0)] }

\* notes whose title, id or timestamps the caller gives
FieldNoteInputs ==
    { EmptyNote,
      [title |-> EmptyText, updatedAt |-> toISOString(0)],
      [id |-> CallerId, title |-> Undef, folder |-> FolderW, createdAt |-> toISOString(0)] }

\* those, and a note whose updatedAt the caller gives as undefined
QueryNoteInputs == FieldNoteInputs \cup { [updatedAt |-> Undef] }

\* updates that name the title, the creation time or the id
FieldUpdateInputs ==
    { [title |-> TitleB],
      [createdAt |-> toISOString(0)],
      [id |-> CallerId] }

Queries == { <<"a">>, <<"z">> }
Folders == { DefaultFolder, FolderW }

BundleOf(notes) == [hasNotes |-> TRUE, isArray |-> TRUE, notes |-> notes,
                    version |-> dbVersion, exportDate |-> toISOString(0)]

FixedBundles ==
    { NoBundle,
      [NoBundle EXCEPT !.hasNotes = TRUE],
      BundleOf(<< [title |-> TitleA], [id |-> CallerId, folder |-> FolderW] >>) }

\* the ids there are: those generateId gives and those a caller makes up
Ids == (0..MaxClock) \X (0..MaxRand)

\* the ids a caller passes: those of the notes in either backend, and one of no note
KnownIds ==
    {n.id : n \in idb \cup Range(ls.notes) \cup Range(nmNotes)}
      \cup (IF currentNote = Nil THEN {} ELSE {currentNote.id}) \cup {MissingId}

(***************************************************************************)
(* init                                                                    *)
(***************************************************************************)
\* initLocalStorage(): the blob it leaves, ok is FALSE when it throws
initLocalStorage(blob) ==
    IF ~storageDefined THEN [ok |-> FALSE, ls |-> blob]
    ELSE IF blob.kind = "null" THEN [ok |-> TRUE, ls |-> Blob(<<>>)]
    ELSE [ok |-> TRUE, ls |-> blob]

\* a handler that creates the object store whether or not the database has it
onupgradeneeded_Recreate(names, records) ==
    [names |-> names \cup {storeName}, records |-> {}]

\* request.onupgradeneeded on a database with the object stores names, the
\* store 'notes' holding records: the store is created, empty, when the
\* database has none of that name. The event comes only with a database
\* older than dbVersion; one that is not has the store
onupgradeneeded(names, records) ==
    IF storeName \in names
    THEN [names |-> names, records |-> records]
    ELSE [names |-> names \cup {storeName}, records |-> {}]

\* a browser that has never opened the database
FreshEngine == [names |-> {}, records |-> {}]

\* window.indexedDB is one of "absent" (no such property), "null", "noOpen"
\* (an object without an open function), "openThrows" and "ok"
\* isPrivateMode(): true when indexedDB.open('test') throws
isPrivateMode(window) == window = "openThrows"

\* checkIndexedDBSupport(): the conjunction, left to right; typeof
\* window.indexedDB.open reads a property of null and throws a TypeError
checkIndexedDBSupport(window) ==
    IF window = "absent" THEN [threw |-> FALSE, value |-> FALSE]
    ELSE IF window = "null" THEN [threw |-> TRUE, value |-> FALSE]
    ELSE IF window = "noOpen" THEN [threw |-> FALSE, value |-> FALSE]
    ELSE [threw |-> FALSE, value |-> ~isPrivateMode(window)]

\* init() from the end of its try block on, flag being isIndexedDBSupported
InitTail(call, flag, blob) ==
    IF flag THEN [call |-> Resolve(call, Nil), ls |-> blob]
    ELSE LET r == initLocalStorage(blob)
         IN  [call |-> IF r.ok THEN Resolve(call, Nil)
                       ELSE Reject(call, "Neither IndexedDB nor localStorage is supported"),
              ls |-> r.ls]

\* the constructor: the capability check, then the synchronous part of
\* init(), in a browser whose Storage is as in storages, whose blob under
\* 'offline_notes' is one of blobs, whose database is one of engines and
\* whose window.indexedDB is one of windows. When checkIndexedDBSupport
\* throws, so does the constructor: init() is not called and no call can be
\* made
ConstructorOn(storages, blobs, engines, windows) ==
    /\ storageDefined \in storages
    /\ db = "null"
    /\ \E engine \in engines :
         /\ objectStoreNames = engine.names
         /\ idb = engine.records
    /\ now = 1
    /\ rng = 0
    /\ txQueue = <<>>
    /\ held = NoBundle
    /\ nmNotes = <<>>
    /\ currentNote = Nil
    /\ titleInput = Nil
    /\ selecting = [c \in Handlers |-> Nil]
    /\ raced = [c \in Handlers |-> {}]
    /\ \E window \in windows, thrown \in BOOLEAN, blob \in blobs :
         LET call == [IdleCall EXCEPT !.op = "init"]
             probe == checkIndexedDBSupport(window)
         IN  /\ (storageDefined \/ blob = NoBlob)
             /\ IF probe.threw
                THEN /\ thrown = FALSE
                     /\ isIndexedDBSupported = FALSE
                     /\ ls = blob
                     /\ calls = [c \in Slots |-> IF c = "ctor"
                                   THEN Reject([IdleCall EXCEPT !.op = "constructor"],
                                               "TypeError")
                                   ELSE IdleCall]
                     /\ openQueue = <<>>
                ELSE IF probe.value
                THEN /\ isIndexedDBSupported = TRUE
                     /\ ls = blob
                     /\ IF thrown
                        THEN /\ calls = [c \in Slots |-> IF c = "ctor"
                                           THEN Await(call, "openThrew", Nil)
                                           ELSE IdleCall]
                             /\ openQueue = <<>>
                        ELSE /\ calls = [c \in Slots |-> IF c = "ctor"
                                           THEN [call EXCEPT !.pc = "open"]
                                           ELSE IdleCall]
                             /\ openQueue = <<"ctor">>
                ELSE /\ thrown = FALSE
                     /\ isIndexedDBSupported = FALSE
                     /\ ls = InitTail(call, FALSE, blob).ls
                     /\ calls = [c \in Slots |-> IF c = "ctor"
                                   THEN InitTail(call, FALSE, blob).call
                                   ELSE IdleCall]
                     /\ openQueue = <<>>

\* the constructor in a browser that has never opened the database
Constructor(storages, blobs) ==
    ConstructorOn(storages, blobs, {FreshEngine}, {"absent", "ok"})

\* a browser with Web Storage and nothing stored yet
Init == Constructor({TRUE}, {NoBlob}) /\ awaitsInit = TRUE

\* any browser: Web Storage may be missing, the blob may be absent or
\* malformed
InitEnv == Constructor(BOOLEAN, {NoBlob, InvalidJson}) /\ awaitsInit = TRUE

\* any browser, and a caller that calls right after the constructor, which
\* leaves init() running
InitEarly == Constructor(BOOLEAN, {NoBlob}) /\ awaitsInit = FALSE

\* a caller starts a call, init() apart, when its previous one has settled
\* and, if it waits for init(), the facade is Ready
MayStart(c) ==
    /\ c \in Callers \cup Peers \cup Handlers /\ ~InFlight(c)
    /\ Constructed
    /\ Ready \/ ~awaitsInit

\* the caller calls init(), as the first thing it does with the facade
StartInit(c) ==
    /\ c \in Callers /\ ~InFlight(c)
    /\ Constructed
    /\ calls[c].op = "none"
    /\ LET call == NewCall(c, "init", Nil, Nil)
       IN  IF isIndexedDBSupported
           THEN \E thrown \in BOOLEAN :
                  /\ IF thrown
                     THEN /\ calls' = [calls EXCEPT ![c] = Await(call, "openThrew", Nil)]
                          /\ openQueue' = openQueue
                     ELSE /\ calls' = [calls EXCEPT ![c] = [call EXCEPT !.pc = "open"]]
                          /\ openQueue' = Append(openQueue, c)
                  /\ UNCHANGED <<isIndexedDBSupported, ls>>
           ELSE /\ calls' = [calls EXCEPT ![c] = InitTail(call, FALSE, ls).call]
                /\ ls' = InitTail(call, FALSE, ls).ls
                /\ UNCHANGED <<isIndexedDBSupported, openQueue>>
    /\ held' = held
    /\ UNCHANGED <<db, idb, env, now, rng, txQueue>>

\* request.onsuccess of indexedDB.open, and init() after its await
OpenSuccess ==
    /\ openQueue # <<>>
    /\ ~MicrotaskPending
    /\ LET c == Head(openQueue)
           r == InitTail(calls[c], isIndexedDBSupported, ls)
           u == onupgradeneeded(objectStoreNames, idb)
       IN  /\ db' = "open"
           /\ objectStoreNames' = u.names
           /\ idb' = u.records
           /\ calls' = [calls EXCEPT ![c] = r.call]
           /\ ls' = r.ls
    /\ openQueue' = Tail(openQueue)
    /\ UNCHANGED <<isIndexedDBSupported, storageDefined, awaitsInit, now, rng, txQueue, held,
                   nmNotes, currentNote, titleInput, selecting, raced>>

\* a catch block that logs and leaves isIndexedDBSupported as it is
InitCatch_KeepFlag(c) ==
    LET r == InitTail(calls[c], isIndexedDBSupported, ls)
    IN  /\ isIndexedDBSupported' = isIndexedDBSupported
        /\ calls' = [calls EXCEPT ![c] = r.call]
        /\ ls' = r.ls

\* the catch block of init(): isIndexedDBSupported = false, then the rest of init()
InitCatch(c) ==
    LET r == InitTail(calls[c], FALSE, ls)
    IN  /\ isIndexedDBSupported' = FALSE
        /\ calls' = [calls EXCEPT ![c] = r.call]
        /\ ls' = r.ls

\* an open request without an onerror handler: the error event is delivered
\* and the promise of initIndexedDB stays pending
OpenError_Unhandled ==
    /\ openQueue # <<>>
    /\ ~MicrotaskPending
    /\ openQueue' = Tail(openQueue)
    /\ UNCHANGED <<isIndexedDBSupported, db, idb, ls, env, now, rng,
                   calls, txQueue, held>>

\* request.onerror of indexedDB.open, and init() after its await
OpenError ==
    /\ openQueue # <<>>
    /\ ~MicrotaskPending
    /\ InitCatch(Head(openQueue))
    /\ openQueue' = Tail(openQueue)
    /\ UNCHANGED <<db, idb, env, now, rng, txQueue, held>>

\* indexedDB.open threw inside initIndexedDB: init() after its await
OpenThrew(c) ==
    /\ calls[c].pc = "micro" /\ calls[c].k = "openThrew"
    /\ InitCatch(c)
    /\ UNCHANGED <<db, idb, env, now, rng, txQueue, openQueue, held>>

(***************************************************************************)
(* The effects of a run on the call, the request queue, the blob, the      *)
(* clock and the random stream                                             *)
(***************************************************************************)
EffAt(c, call, q, blob, t) ==
    /\ calls' = [calls EXCEPT ![c] = call]
    /\ txQueue' = q
    /\ ls' = blob
    /\ now' = t
    /\ rng' = rng

Eff(c, call, q, blob) == EffAt(c, call, q, blob, now)

\* the values new Date() may give after the clock has read t: the clock
\* advances between two readings or it does not
ClockAfter(t) == {t, t + 1} \cap (1..MaxClock)

Req(c, kind, arg) == [slot |-> c, kind |-> kind, arg |-> arg]

\* this.db.transaction(...) on a null db throws inside the promise executor
NoDb == isIndexedDBSupported /\ db = "null"

Found(note) == [found |-> TRUE, note |-> note]
NotFound == [found |-> FALSE, note |-> EmptyNote]

\* getNoteLocalStorage(id) on the notes read
FindNote(notes, id) ==
    IF FindIndex(notes, id) = 0 THEN NotFound ELSE Found(Find(notes, id))

\* store.get(id) on the records of the object store
IdbGet(records, id) ==
    IF \E n \in records : n.id = id
    THEN Found(CHOOSE n \in records : n.id = id)
    ELSE NotFound

\* createNote(noteData) called by slot c, q being the request queue; top is
\* FALSE when importData calls it
DoCreate(c, call, noteData, q, top) ==
    \E t0 \in ClockAfter(now) : \E t1 \in ClockAfter(t0) : \E t2 \in ClockAfter(t1) :
      LET note == BuildNote(noteData, generateId(t0, rng), t1, t2)
      IN  /\ now' = t2
          /\ rng' = rng + 1
          /\ IF isIndexedDBSupported
             THEN /\ ls' = ls
                  /\ IF db = "null"
                     THEN /\ calls' = [calls EXCEPT ![c] = Reject(call, "TypeError")]
                          /\ txQueue' = q
                     ELSE /\ calls' = [calls EXCEPT ![c] =
                                         Request([call EXCEPT !.local = note], "add")]
                          /\ txQueue' = Append(q, Req(c, "add", note))
             ELSE /\ txQueue' = q
                  /\ LET r == getNotesFromLocalStorage
                     IN  IF r.ok
                         THEN /\ ls' = Blob(Append(r.notes, note))
                              /\ calls' = [calls EXCEPT ![c] =
                                             IF top THEN Resolve(call, note)
                                             ELSE Await(call, "importNext", Nil)]
                         ELSE /\ ls' = ls
                              /\ calls' = [calls EXCEPT ![c] =
                                   Reject(call, "Failed to create note in localStorage")]

\* the loop of importData after call.i notes have been created
ImportNext(c, call, q) ==
    IF call.i = Len(call.arg.notes)
    THEN Eff(c, Resolve(call, Len(call.arg.notes)), q, ls)
    ELSE DoCreate(c, [call EXCEPT !.i = @ + 1], call.arg.notes[call.i + 1], q, FALSE)

\* an updateNoteLocalStorage(note) that writes the note alone
updateNoteLocalStorage_Alone(c, call, note, q, t) ==
    LET r == getNotesFromLocalStorage
        index == FindIndex(r.notes, note.id)
    IN  IF r.ok /\ index # 0
        THEN EffAt(c, Resolve(call, note), q, Blob(<<note>>), t)
        ELSE EffAt(c, Reject(call, "Failed to update note in localStorage"), q, ls, t)

\* updateNoteLocalStorage(note), t being the clock
updateNoteLocalStorage(c, call, note, q, t) ==
    LET r == getNotesFromLocalStorage
        index == FindIndex(r.notes, note.id)
    IN  IF r.ok /\ index # 0
        THEN EffAt(c, Resolve(call, note), q, Blob([r.notes EXCEPT ![index] = note]), t)
        ELSE EffAt(c, Reject(call, "Failed to update note in localStorage"), q, ls, t)

\* updateNote writing the updates as a new record when the note is missing
UpdateAfterGet_Upsert(c, call, res, q) ==
    \E t \in ClockAfter(now) :
      LET existingNote == IF res.found THEN res.note ELSE [id |-> call.arg]
          updatedNote == BuildUpdate(existingNote, call.upd, t)
      IN  IF isIndexedDBSupported
          THEN EffAt(c, Request([call EXCEPT !.local = updatedNote], "put"),
                     Append(q, Req(c, "put", updatedNote)), ls, t)
          ELSE EffAt(c, Resolve(call, updatedNote), q,
                     Blob(Append(getNotesFromLocalStorage.notes, updatedNote)), t)

\* updateNote after await this.getNote(id) gave res
UpdateAfterGet(c, call, res, q) ==
    IF ~res.found
    THEN Eff(c, Reject(call, "Note not found"), q, ls)
    ELSE \E t \in ClockAfter(now) :
           LET updatedNote == BuildUpdate(res.note, call.upd, t)
           IN  IF isIndexedDBSupported
               THEN IF db = "null"
                    THEN EffAt(c, Reject(call, "TypeError"), q, ls, t)
                    ELSE EffAt(c, Request([call EXCEPT !.local = updatedNote], "put"),
                               Append(q, Req(c, "put", updatedNote)), ls, t)
               ELSE updateNoteLocalStorage(c, call, updatedNote, q, t)

\* how the fallback settles createNote(noteData) or updateNote(id, updates)
\* when its blob is blob: createNoteLocalStorage pushes whatever the id is,
\* updateNoteLocalStorage looks for the id of the note it was given
SettlesOnFallback(op, id, updates, blob) ==
    IF blob.kind = "invalid" THEN "rejected"
    ELSE IF op = "createNote" THEN "resolved"
    ELSE LET res == FindNote(blob.notes, id)
         IN  IF ~res.found THEN "rejected"
             ELSE IF FindIndex(blob.notes, BuildUpdate(res.note, updates, now).id) = 0
             THEN "rejected"
             ELSE "resolved"

LowerChar(ch) ==
    CASE ch = "A" -> "a"
      [] ch = "U" -> "u"
      [] ch = "N" -> "n"
      [] OTHER -> ch

\* s.toLowerCase()
ToLowerCase(s) == [i \in 1..Len(s) |-> LowerChar(s[i])]

\* s.includes(q)
Includes(s, q) ==
    \E i \in 0..(Len(s) - Len(q)) : SubSeq(s, i + 1, i + Len(q)) = q

Undefined(n, k) == k \notin DOMAIN n \/ n[k] = Undef

\* the filter predicate of searchNotes on one note
Matches(n, searchTerm) ==
    \/ Includes(ToLowerCase(n.title), searchTerm)
    \/ Includes(ToLowerCase(n.content), searchTerm)
    \/ \E i \in 1..Len(n.tags) : Includes(ToLowerCase(n.tags[i]), searchTerm)

\* the filter predicate throws a TypeError: toLowerCase of undefined
MatchThrows(n, searchTerm) ==
    \/ Undefined(n, "title")
    \/ /\ ~Includes(ToLowerCase(n.title), searchTerm)
       /\ Undefined(n, "content")

Max(S) == CHOOSE x \in S : \A y \in S : y <= x

\* new Date(n.updatedAt).getTime(): ok is FALSE when it gives NaN
UpdatedTime(n) ==
    IF Undefined(n, "updatedAt") THEN [ok |-> FALSE, ms |-> 0]
    ELSE [ok |-> TRUE, ms |-> getTime(n.updatedAt)]

\* Math.max(...notes.map(n => new Date(n.updatedAt).getTime())), NaN as soon
\* as one of the times is NaN
MaxUpdated(notes) ==
    IF \E i \in 1..Len(notes) : ~UpdatedTime(notes[i]).ok THEN <<"NaN">>
    ELSE <<"ms", Max({UpdatedTime(notes[i]).ms : i \in 1..Len(notes)})>>

\* JSON.stringify(notes).length, measured in the keys and the characters of
\* the texts that the serialisation keeps
StringifyLength(notes) ==
    LET Text(n, k) == IF k \in DOMAIN JsonNote(n) THEN Len(n[k]) ELSE 0
        Size(n) == Cardinality(DOMAIN JsonNote(n)) + Text(n, "title") + Text(n, "content")
        Sum[i \in 0..Len(notes)] == IF i = 0 THEN 2 ELSE Sum[i - 1] + Size(notes[i])
    IN  Sum[Len(notes)]

\* the object getStorageStats() returns once getAllNotes() gave notes
StorageStats(notes) ==
    [totalNotes  |-> Len(notes),
     totalSize   |-> StringifyLength(notes),
     storageType |-> IF isIndexedDBSupported THEN "IndexedDB" ELSE "localStorage",
     lastUpdated |-> IF Len(notes) > 0 THEN MaxUpdated(notes) ELSE Nil]

\* a call after its await this.getAllNotes() gave notes
AfterGetAll(c, call, notes, q) ==
    CASE call.op = "getAllNotes" ->
           Eff(c, Resolve(call, notes), q, ls)
      [] call.op = "searchNotes" ->
           LET searchTerm == ToLowerCase(call.arg)
           IN  IF \E i \in 1..Len(notes) : MatchThrows(notes[i], searchTerm)
               THEN Eff(c, Reject(call, "TypeError"), q, ls)
               ELSE Eff(c, Resolve(call,
                           SelectSeq(notes, LAMBDA n : Matches(n, searchTerm))), q, ls)
      [] call.op = "getNotesByFolder" ->
           Eff(c, Resolve(call,
                   SelectSeq(notes, LAMBDA n : Get(n, "folder") = call.arg)), q, ls)
      [] call.op = "getStorageStats" ->
           Eff(c, Resolve(call, StorageStats(notes)), q, ls)
      [] call.op = "exportData" ->
           \E t \in ClockAfter(now) :
             EffAt(c, Resolve(call, [hasNotes |-> TRUE, isArray |-> TRUE, notes |-> notes,
                                     version |-> dbVersion, exportDate |-> toISOString(t)]), q, ls, t)

(***************************************************************************)
(* The calls of the facade: the run from the call to its first await       *)
(***************************************************************************)
Frame(c) ==
    /\ held' = IF calls'[c].rt = 2 THEN HeldNow(c) ELSE NoBundle
    /\ UNCHANGED <<isIndexedDBSupported, db, idb, env, openQueue>>

\* a request that waits in the queue while db is null
IdbRequest_Queue(c, call, kind, arg) ==
    Eff(c, Request(call, kind), Append(txQueue, Req(c, kind, arg)), ls)

\* one request to the object store, or the TypeError of a null db
IdbRequest(c, call, kind, arg) ==
    IF db = "null"
    THEN Eff(c, Reject(call, "TypeError"), txQueue, ls)
    ELSE Eff(c, Request(call, kind), Append(txQueue, Req(c, kind, arg)), ls)

StartCreateNote(c, noteData) ==
    /\ MayStart(c)
    /\ rng < MaxRand
    /\ DoCreate(c, NewCall(c, "createNote", noteData, Nil), noteData, txQueue, TRUE)
    /\ Frame(c)

StartGetAllNotes(c) ==
    /\ MayStart(c)
    /\ LET call == NewCall(c, "getAllNotes", Nil, Nil)
           r == getNotesFromLocalStorage
       IN  IF isIndexedDBSupported THEN IdbRequest(c, call, "getAll", Nil)
           ELSE IF r.ok THEN Eff(c, Resolve(call, r.notes), txQueue, ls)
           ELSE Eff(c, Reject(call, "Failed to get notes from localStorage"), txQueue, ls)
    /\ Frame(c)

StartGetNote(c, id) ==
    /\ MayStart(c)
    /\ id \in KnownIds
    /\ LET call == NewCall(c, "getNote", id, Nil)
           r == getNotesFromLocalStorage
       IN  IF isIndexedDBSupported THEN IdbRequest(c, call, "get", id)
           ELSE IF r.ok THEN Eff(c, Resolve(call, FindNote(r.notes, id)), txQueue, ls)
           ELSE Eff(c, Reject(call, "Failed to get note from localStorage"), txQueue, ls)
    /\ Frame(c)

StartUpdateNote(c, id, updates) ==
    /\ MayStart(c)
    /\ id \in KnownIds
    /\ LET call == NewCall(c, "updateNote", id, updates)
           r == getNotesFromLocalStorage
       IN  IF isIndexedDBSupported THEN IdbRequest(c, call, "get", id)
           ELSE IF r.ok
                THEN Eff(c, Await(call, "afterGet", FindNote(r.notes, id)), txQueue, ls)
           ELSE Eff(c, Reject(call, "Failed to get note from localStorage"), txQueue, ls)
    /\ Frame(c)

\* deleteNote rejecting when the id is not stored
StartDeleteNote_Strict(c, id) ==
    /\ MayStart(c)
    /\ id \in KnownIds
    /\ LET call == NewCall(c, "deleteNote", id, Nil)
           r == getNotesFromLocalStorage
       IN  IF isIndexedDBSupported THEN IdbRequest(c, call, "delete", id)
           ELSE IF r.ok /\ FindIndex(r.notes, id) # 0
                THEN Eff(c, Resolve(call, TRUE), txQueue,
                         Blob(SelectSeq(r.notes, LAMBDA n : n.id # id)))
           ELSE Eff(c, Reject(call, "Failed to delete note from localStorage"), txQueue, ls)
    /\ Frame(c)

StartDeleteNote(c, id) ==
    /\ MayStart(c)
    /\ id \in KnownIds
    /\ LET call == NewCall(c, "deleteNote", id, Nil)
           r == getNotesFromLocalStorage
       IN  IF isIndexedDBSupported THEN IdbRequest(c, call, "delete", id)
           ELSE IF r.ok
                THEN Eff(c, Resolve(call, TRUE), txQueue,
                         Blob(SelectSeq(r.notes, LAMBDA n : n.id # id)))
           ELSE Eff(c, Reject(call, "Failed to delete note from localStorage"), txQueue, ls)
    /\ Frame(c)

\* searchNotes, exportData, and getNotesByFolder on the fallback: await getAllNotes()
StartWithGetAll(c, op, arg) ==
    /\ MayStart(c)
    /\ LET call == NewCall(c, op, arg, Nil)
           r == getNotesFromLocalStorage
       IN  IF isIndexedDBSupported
           THEN IdbRequest(c, call, IF op = "getNotesByFolder" THEN "index" ELSE "getAll", arg)
           ELSE IF r.ok THEN Eff(c, Await(call, "afterGetAll", r.notes), txQueue, ls)
           ELSE Eff(c, Reject(call, "Failed to get notes from localStorage"), txQueue, ls)
    /\ Frame(c)

StartSearchNotes(c, query) == StartWithGetAll(c, "searchNotes", query)
StartGetNotesByFolder(c, folder) == StartWithGetAll(c, "getNotesByFolder", folder)
StartExportData(c) == StartWithGetAll(c, "exportData", Nil)
StartGetStorageStats(c) == StartWithGetAll(c, "getStorageStats", Nil)

\* a clearAllData() that leaves the blob of the fallback as it is
DoClear_Keep(c, call, done) ==
    IF isIndexedDBSupported THEN IdbRequest(c, call, "clear", Nil)
    ELSE IF storageDefined THEN Eff(c, done, txQueue, ls)
    ELSE Eff(c, Reject(call, "Failed to clear localStorage data"), txQueue, ls)

\* clearAllData() called by slot c: done is the call once the fallback has cleared
DoClear(c, call, done) ==
    IF isIndexedDBSupported THEN IdbRequest(c, call, "clear", Nil)
    ELSE IF storageDefined THEN Eff(c, done, txQueue, Blob(<<>>))
    ELSE Eff(c, Reject(call, "Failed to clear localStorage data"), txQueue, ls)

StartClearAllData(c) ==
    /\ MayStart(c)
    /\ LET call == NewCall(c, "clearAllData", Nil, Nil)
       IN  DoClear(c, call, Resolve(call, TRUE))
    /\ Frame(c)

\* importData clearing the store before it validates the bundle
StartImportData_ClearFirst(c, data) ==
    /\ MayStart(c)
    /\ rng + Len(data.notes) <= MaxRand
    /\ LET call == NewCall(c, "importData", data, Nil)
       IN  IF ~data.hasNotes \/ ~data.isArray
           THEN DoClear(c, call, Reject(call, "Invalid import data format"))
           ELSE DoClear(c, call, Await(call, "importNext", Nil))
    /\ Frame(c)

StartImportData(c, data) ==
    /\ MayStart(c)
    /\ rng + Len(data.notes) <= MaxRand
    /\ LET call == NewCall(c, "importData", data, Nil)
       IN  IF ~data.hasNotes \/ ~data.isArray
           THEN Eff(c, Reject(call, "Invalid import data format"), txQueue, ls)
           ELSE DoClear(c, call, Await(call, "importNext", Nil))
    /\ Frame(c)

(***************************************************************************)
(* Continuations on the fallback (microtasks)                              *)
(***************************************************************************)
MicroFrame ==
    UNCHANGED <<isIndexedDBSupported, db, idb, env, openQueue, held>>

UpdateResume(c) ==
    /\ calls[c].pc = "micro" /\ calls[c].k = "afterGet"
    /\ UpdateAfterGet(c, calls[c], calls[c].local, txQueue)
    /\ MicroFrame

GetAllResume(c) ==
    /\ calls[c].pc = "micro" /\ calls[c].k = "afterGetAll"
    /\ AfterGetAll(c, calls[c], calls[c].local, txQueue)
    /\ MicroFrame

ImportResume(c) ==
    /\ calls[c].pc = "micro" /\ calls[c].k = "importNext"
    /\ ImportNext(c, calls[c], txQueue)
    /\ MicroFrame

(***************************************************************************)
(* Events of the object store: the request at the head of the queue is     *)
(* carried out, its handler settles the promise, and the call runs on to   *)
(* its next await                                                          *)
(***************************************************************************)
HeadIs(kind) ==
    /\ txQueue # <<>>
    /\ ~MicrotaskPending
    /\ Head(txQueue).kind = kind

EventFrame == UNCHANGED <<isIndexedDBSupported, db, env, openQueue, held>>

\* store.add(note)
IdbAdd ==
    /\ HeadIs("add")
    /\ LET req == Head(txQueue)
           c == req.slot
       IN  IF \E n \in idb : n.id = req.arg.id
           THEN /\ idb' = idb
                /\ Eff(c, Reject(calls[c], "Failed to create note"), Tail(txQueue), ls)
           ELSE /\ idb' = idb \cup {req.arg}
                /\ IF calls[c].op = "importData"
                   THEN ImportNext(c, calls[c], Tail(txQueue))
                   ELSE Eff(c, Resolve(calls[c], req.arg), Tail(txQueue), ls)
    /\ EventFrame

\* store.put(note)
IdbPutEvent ==
    /\ HeadIs("put")
    /\ LET req == Head(txQueue)
       IN  /\ idb' = IdbPut(req.arg)
           /\ Eff(req.slot, Resolve(calls[req.slot], req.arg), Tail(txQueue), ls)
    /\ EventFrame

\* store.get(id)
IdbGetEvent ==
    /\ HeadIs("get")
    /\ LET req == Head(txQueue)
           c == req.slot
           res == IdbGet(idb, req.arg)
       IN  IF calls[c].op = "updateNote"
           THEN UpdateAfterGet(c, calls[c], res, Tail(txQueue))
           ELSE Eff(c, Resolve(calls[c], res), Tail(txQueue), ls)
    /\ idb' = idb
    /\ EventFrame

\* store.getAll()
IdbGetAll ==
    /\ HeadIs("getAll")
    /\ AfterGetAll(Head(txQueue).slot, calls[Head(txQueue).slot], KeyOrder(idb), Tail(txQueue))
    /\ idb' = idb
    /\ EventFrame

\* an index whose getAll(folder) gives every record of the store
IdbIndexGetAll_Every ==
    /\ HeadIs("index")
    /\ LET req == Head(txQueue)
       IN  Eff(req.slot, Resolve(calls[req.slot], KeyOrder(idb)), Tail(txQueue), ls)
    /\ idb' = idb
    /\ EventFrame

\* store.index('folder').getAll(folder)
IdbIndexGetAll ==
    /\ HeadIs("index")
    /\ LET req == Head(txQueue)
       IN  Eff(req.slot,
               Resolve(calls[req.slot],
                       KeyOrder({n \in idb : ~Undefined(n, "folder") /\ n.folder = req.arg})),
               Tail(txQueue), ls)
    /\ idb' = idb
    /\ EventFrame

\* store.delete(id)
IdbDelete ==
    /\ HeadIs("delete")
    /\ LET req == Head(txQueue)
       IN  /\ idb' = {n \in idb : n.id # req.arg}
           /\ Eff(req.slot, Resolve(calls[req.slot], TRUE), Tail(txQueue), ls)
    /\ EventFrame

\* store.clear()
IdbClear ==
    /\ HeadIs("clear")
    /\ LET c == Head(txQueue).slot
       IN  /\ idb' = {}
           /\ IF calls[c].op = "importData"
              THEN ImportNext(c, calls[c], Tail(txQueue))
              ELSE Eff(c, Resolve(calls[c], TRUE), Tail(txQueue), ls)
    /\ EventFrame

(***************************************************************************)
(* Specification                                                           *)
(***************************************************************************)
\* the calls that write, their arguments drawn from the given sets
WriteCalls(noteInputs, updateInputs, bundles) ==
    \/ \E c \in Callers : \E noteData \in noteInputs : StartCreateNote(c, noteData)
    \/ \E c \in Callers : \E id \in Ids : \E updates \in updateInputs :
         StartUpdateNote(c, id, updates)
    \/ \E c \in Callers : \E id \in Ids : StartDeleteNote(c, id)
    \/ \E c \in Callers : StartClearAllData(c)
    \/ \E c \in Callers : \E data \in bundles : StartImportData(c, data)
    \/ \E c \in Callers : StartImportData(c, HeldNow(c))

\* the calls that read
ReadCalls(queries, folders) ==
    \/ \E c \in Callers : StartGetAllNotes(c)
    \/ \E c \in Callers : \E id \in Ids : StartGetNote(c, id)
    \/ \E c \in Callers : \E query \in queries : StartSearchNotes(c, query)
    \/ \E c \in Callers : \E folder \in folders : StartGetNotesByFolder(c, folder)

\* the steps init() takes
InitSteps ==
    \/ OpenSuccess
    \/ OpenError
    \/ \E c \in Slots : OpenThrew(c)

\* the steps createNote and the reads take after they have started
ReadSteps ==
    \/ \E c \in Callers : GetAllResume(c)
    \/ IdbAdd
    \/ IdbGetEvent
    \/ IdbGetAll

\* the steps the other calls take after they have started
WriteSteps ==
    \/ \E c \in Callers : UpdateResume(c)
    \/ \E c \in Callers : ImportResume(c)
    \/ IdbPutEvent
    \/ IdbDelete
    \/ IdbClear

\* the facade its constructor initializes, written to and exported by a
\* caller; getNote and getAllNotes run inside updateNote and exportData
Next ==
    \/ InitSteps
    \/ WriteCalls(NoteInputs, UpdateInputs, FixedBundles)
    \/ \E c \in Callers : StartExportData(c)
    \/ ReadSteps
    \/ WriteSteps

\* the facade in a browser with Web Storage and nothing stored yet
Spec == Init /\ [][Next]_vars

EnvNoteInputs == { EmptyNote }

\* the facade a caller initializes once more, adds notes to and reads
NextEnv ==
    \/ InitSteps
    \/ \E c \in Callers : StartInit(c)
    \/ \E c \in Callers : \E noteData \in EnvNoteInputs : StartCreateNote(c, noteData)
    \/ ReadCalls(Queries, Folders)
    \/ ReadSteps
    \/ IdbIndexGetAll

\* the facade in any browser
SpecEnv == InitEnv /\ [][NextEnv]_vars

\* createNote and updateNote with inputs that name the title, the id and
\* the timestamps, in a browser with Web Storage
NextFields ==
    \/ InitSteps
    \/ \E c \in Callers : \E noteData \in FieldNoteInputs : StartCreateNote(c, noteData)
    \/ \E c \in Callers : \E id \in Ids : \E updates \in FieldUpdateInputs :
         StartUpdateNote(c, id, updates)
    \/ \E c \in Callers : UpdateResume(c)
    \/ IdbAdd
    \/ IdbGetEvent
    \/ IdbPutEvent

SpecFields == Init /\ [][NextFields]_vars

\* the queries on the notes such createNote calls leave
NextQuery ==
    \/ InitSteps
    \/ \E c \in Callers : \E noteData \in QueryNoteInputs : StartCreateNote(c, noteData)
    \/ \E c \in Callers : StartGetStorageStats(c)
    \/ ReadCalls(Queries, Folders)
    \/ ReadSteps
    \/ IdbIndexGetAll

SpecQuery == Init /\ [][NextQuery]_vars

EarlyUpdateInputs == { [title |-> TitleB] }
EarlyBundles == { NoBundle, BundleOf(<< [title |-> TitleA] >>) }

\* every call of the facade, by a caller that does not wait for init()
NextEarly ==
    \/ InitSteps
    \/ WriteCalls(EnvNoteInputs, EarlyUpdateInputs, EarlyBundles)
    \/ ReadCalls({<<"a">>}, {DefaultFolder})
    \/ \E c \in Callers : StartExportData(c)
    \/ \E c \in Callers : StartGetStorageStats(c)
    \/ ReadSteps
    \/ WriteSteps
    \/ IdbIndexGetAll

SpecEarly == InitEarly /\ [][NextEarly]_vars

\* createNote and updateNote called by two callers, neither of which waits
\* for the other
NextDistinct ==
    \/ InitSteps
    \/ \E c \in Callers \cup Peers : \E noteData \in EnvNoteInputs : StartCreateNote(c, noteData)
    \/ \E c \in Callers \cup Peers : \E id \in Ids : \E updates \in EarlyUpdateInputs :
         StartUpdateNote(c, id, updates)
    \/ \E c \in Callers \cup Peers : UpdateResume(c)
    \/ IdbAdd
    \/ IdbGetEvent
    \/ IdbPutEvent

SpecDistinct == Init /\ [][NextDistinct]_vars

\* a bundle whose two notes have the same id
TwinBundles == { BundleOf(<< [id |-> CallerId], [id |-> CallerId, title |-> TitleA] >>) }

\* createNote, clearAllData and importData of such a bundle
NextTwins ==
    \/ InitSteps
    \/ \E c \in Callers : \E noteData \in EnvNoteInputs : StartCreateNote(c, noteData)
    \/ \E c \in Callers : \E data \in TwinBundles : StartImportData(c, data)
    \/ \E c \in Callers : StartClearAllData(c)
    \/ \E c \in Callers : StartGetAllNotes(c)
    \/ \E c \in Callers : ImportResume(c)
    \/ IdbAdd
    \/ IdbClear
    \/ IdbGetAll

SpecTwins == Init /\ [][NextTwins]_vars

\* updates of two different fields
PeerUpdateInputs == { [title |-> TitleB], [content |-> TitleA] }

\* createNote, updateNote and deleteNote called by two callers, neither of
\* which waits for the other
NextPeers ==
    \/ InitSteps
    \/ \E c \in Callers \cup Peers : \E noteData \in EnvNoteInputs : StartCreateNote(c, noteData)
    \/ \E c \in Callers \cup Peers : \E id \in Ids : \E updates \in PeerUpdateInputs :
         StartUpdateNote(c, id, updates)
    \/ \E c \in Callers \cup Peers : \E id \in Ids : StartDeleteNote(c, id)
    \/ \E c \in Callers \cup Peers : UpdateResume(c)
    \/ IdbAdd
    \/ IdbGetEvent
    \/ IdbPutEvent
    \/ IdbDelete

SpecPeers == Init /\ [][NextPeers]_vars

(***************************************************************************)
(* Properties                                                              *)
(***************************************************************************)
\* the call of slot c is started or moves on in this step
Changed(c) ==
    \/ calls[c].op # calls'[c].op
    \/ calls[c].pc # calls'[c].pc
    \/ calls[c].i # calls'[c].i
    \/ calls[c].op = calls'[c].op
         /\ (calls[c].arg # calls'[c].arg \/ calls[c].upd # calls'[c].upd)

InvalidBundle(data) == ~data.hasNotes \/ ~data.isArray

\* C7: importData on a bundle whose notes field is missing or is not a
\* sequence rejects with 'Invalid import data format', and the step that
\* rejects it changes neither backend and queues no request (no clear, no
\* create)
C7_InvalidImportLeavesStore ==
    [][\A c \in Callers :
         (Changed(c) /\ calls'[c].op = "importData" /\ InvalidBundle(calls'[c].arg))
         => /\ calls'[c].pc = "rejected"
            /\ calls'[c].err = "Invalid import data format"
            /\ idb' = idb /\ ls' = ls /\ txQueue' = txQueue]_vars

\* an invalid bundle was rejected while the store held a note
C7_Witness ==
    \E c \in Callers :
      /\ calls[c].op = "importData" /\ InvalidBundle(calls[c].arg)
      /\ calls[c].pc = "rejected"
      /\ StoreNotes # {}


Fields == {"id", "title", "content", "tags", "folder", "createdAt", "updatedAt"}

\* a[k] === b[k]
FieldEq(a, b, k) ==
    IF k \in TextFields THEN Get(a, k) = Get(b, k)
    ELSE /\ (k \in DOMAIN a) = (k \in DOMAIN b)
         /\ k \in DOMAIN a => a[k] = b[k]

\* what getNote(id) resolves with on the backend that is active
GetNoteOf(flag, records, blob, id) ==
    IF flag THEN IdbGet(records, id) ELSE FindNote(blob.notes, id)

GetNoteNow(id) == GetNoteOf(isIndexedDBSupported, idb, ls, id)

\* the notes of the active backend in the order getAllNotes gives them
StoredSeq == IF isIndexedDBSupported THEN KeyOrder(idb) ELSE ls.notes

Resolved(c, op) == calls[c].op = op /\ calls[c].pc = "resolved"

\* the call of slot c resolves in this step
Resolves(c, op) ==
    /\ calls[c].op = op /\ InFlight(c)
    /\ calls'[c].pc = "resolved"

\* C1: no two notes of the store have the same id, and the id a createNote
\* call returns is the id of no other note of the store
C1_UniqueIds ==
    /\ \A i, j \in 1..Len(StoredSeq) :
         StoredSeq[i].id = StoredSeq[j].id => i = j
    /\ \A c \in Callers :
         Resolved(c, "createNote")
         => Cardinality({i \in 1..Len(StoredSeq) : StoredSeq[i].id = calls[c].ret.id}) <= 1

\* C2: the note createNote returns has the documented default in every field
\* its input left unset, has id, createdAt and updatedAt, createdAt equals
\* updatedAt, and it is the note that is stored
C2_CreateDefaults ==
    \A c \in Callers :
      Resolved(c, "createNote")
      => LET noteData == calls[c].arg
             note == calls[c].ret
         IN  /\ "title" \notin DOMAIN noteData => note.title = UntitledNote
             /\ "content" \notin DOMAIN noteData => note.content = EmptyText
             /\ "tags" \notin DOMAIN noteData => note.tags = <<>>
             /\ "folder" \notin DOMAIN noteData => note.folder = DefaultFolder
             /\ {"id", "createdAt", "updatedAt"} \subseteq DOMAIN note
             /\ note.createdAt = note.updatedAt
             /\ \E n \in StoreNotes :
                  \A k \in Fields : FieldEq(n, note, k)

\* in the step that resolves the updateNote of slot c, the record getNote(id)
\* gives after the step has field k at the value the updates supply, or,
\* when the updates do not name k, at the value it had before the step
UpdatedField(c, k) ==
    LET id == calls[c].arg
        updates == calls[c].upd
        before == GetNoteNow(id)
        after == GetNoteOf(isIndexedDBSupported', idb', ls', id)
    IN  /\ after.found
        /\ IF k \in DOMAIN updates
           THEN FieldEq(after.note, updates, k)
           ELSE before.found /\ FieldEq(after.note, before.note, k)

C4_UpdateMissingRejects ==
    [][\A c \in Callers :
         (/\ Changed(c)
          /\ calls'[c].op = "updateNote" /\ calls'[c].ready
          /\ ~GetNoteNow(calls'[c].arg).found)
         => /\ idb' = idb /\ ls' = ls
            /\ calls'[c].pc # "resolved"
            /\ \A i \in 1..Len(txQueue') : txQueue'[i].kind # "put"
            /\ calls'[c].pc = "rejected" => calls'[c].err = "Note not found"]_vars

\* an update of an id that is not stored was rejected with 'Note not found'
C4_Witness ==
    \E c \in Callers :
      /\ calls[c].op = "updateNote" /\ calls[c].pc = "rejected"
      /\ calls[c].ready
      /\ calls[c].err = "Note not found"
      /\ ~GetNoteNow(calls[c].arg).found

\* C5: once the facade is Ready, every deleteNote(id) that has settled has
\* resolved with true, whether or not the id was stored, and getNote(id)
\* reports not-found after it
C5_DeleteIdempotent ==
    \A c \in Callers :
      (calls[c].op = "deleteNote" /\ calls[c].ready /\ Settled(c))
      => /\ calls[c].pc = "resolved"
         /\ calls[c].ret = TRUE
         /\ ~GetNoteNow(calls[c].arg).found

\* a stored note was deleted while another note stays stored
C5_Witness ==
    \E c \in Callers :
      /\ Resolved(c, "deleteNote") /\ calls[c].ready
      /\ calls[c].arg # MissingId
      /\ StoreNotes # {}

\* C6: when importData(b) has resolved after b = exportData() and
\* clearAllData(), the store holds the notes it held at the export, with the
\* same value in every field
C6_RoundTrip ==
    \A c \in Callers :
      (Resolved(c, "importData") /\ calls[c].rt = 3)
      => StoreNotes = calls[c].rtStore

\* the stored note agrees with the note of the bundle on every field the
\* bundle supplies
Agrees(stored, supplied) == \A k \in DOMAIN supplied : FieldEq(stored, supplied, k)

C9_InitFallsBack ==
    [][\A c \in Slots :
         (calls[c].op = "init" /\ InFlight(c) /\ ~InFlight(c)')
         => IF isIndexedDBSupported'
            THEN db' = "open" /\ calls'[c].pc = "resolved"
            ELSE IF storageDefined
            THEN calls'[c].pc = "resolved" /\ ls'.kind # "null"
            ELSE calls'[c].pc = "rejected"]_vars

\* an open has succeeded, an open has failed, and init() has resolved on the
\* fallback with the notes key initialized
C9_Witness ==
    \E c \in Slots :
      /\ Resolved(c, "init")
      /\ ~isIndexedDBSupported /\ db = "open"
      /\ ls.kind = "json"

\* C10: with the fallback active and a blob that does not parse, a read that
\* was called on the Ready facade has resolved with the empty result
C10_CorruptReadsEmpty ==
    \A c \in Callers :
      (/\ ~isIndexedDBSupported /\ storageDefined /\ ls.kind = "invalid"
       /\ calls[c].ready /\ Settled(c)
       /\ calls[c].op \in {"getAllNotes", "getNote", "getNotesByFolder", "searchNotes"})
      => /\ calls[c].pc = "resolved"
         /\ IF calls[c].op = "getNote" THEN ~calls[c].ret.found
            ELSE calls[c].ret = <<>>

\* text s contains q as a substring ignoring case; a missing or undefined
\* text contains nothing
ContainsIgnoringCase(s, q) ==
    s # Undef /\ Includes(ToLowerCase(s), ToLowerCase(q))

\* title, content or at least one tag of n contains q ignoring case
NoteContains(n, q) ==
    \/ ContainsIgnoringCase(Get(n, "title"), q)
    \/ ContainsIgnoringCase(Get(n, "content"), q)
    \/ /\ "tags" \in DOMAIN n
       /\ \E i \in 1..Len(n.tags) : ContainsIgnoringCase(n.tags[i], q)

\* C11: a searchNotes(q) that has settled has resolved, with exactly the
\* stored notes whose title, content or one tag contains q ignoring case
C11_SearchExact ==
    \A c \in Callers :
      (calls[c].op = "searchNotes" /\ Settled(c))
      => /\ calls[c].pc = "resolved"
         /\ calls[c].ret = SelectSeq(StoredSeq, LAMBDA n : NoteContains(n, calls[c].arg))

\* C12: on either backend a getNotesByFolder(f) that has settled has resolved
\* with the notes of getAllNotes() whose folder is f, in their order, which
\* is the empty sequence when no note has that folder
C12_FolderSubset ==
    \A c \in Callers :
      (calls[c].op = "getNotesByFolder" /\ Settled(c))
      => /\ calls[c].pc = "resolved"
         /\ calls[c].ret = SelectSeq(StoredSeq, LAMBDA n : Get(n, "folder") = calls[c].arg)

\* getNotesByFolder has resolved on IndexedDB with some of the notes and not
\* all of them
C12_Witness ==
    \E c \in Callers :
      /\ Resolved(c, "getNotesByFolder")
      /\ isIndexedDBSupported
      /\ Len(calls[c].ret) > 0
      /\ Len(calls[c].ret) < StoreSize

\* C13: no step of an updateNote call changes the createdAt of a stored
\* note: every note stored before the step is stored after it with the
\* createdAt it had
C13_CreatedAtFixed ==
    [][\A c \in Callers :
         (calls[c].op = "updateNote" /\ InFlight(c))
         => \A id \in Ids :
              GetNoteNow(id).found
              => /\ GetNoteOf(isIndexedDBSupported', idb', ls', id).found
                 /\ FieldEq(GetNoteOf(isIndexedDBSupported', idb', ls', id).note,
                            GetNoteNow(id).note, "createdAt")]_vars

\* C14: every stored note has a createdAt and an updatedAt, and its
\* createdAt is not later than its updatedAt
C14_CreatedBeforeUpdated ==
    \A n \in StoreNotes :
      /\ ~Undefined(n, "createdAt") /\ ~Undefined(n, "updatedAt")
      /\ getTime(n.createdAt) <= getTime(n.updatedAt)

\* C15: when updateNote(id, updates) resolves, the stored note's updatedAt is
\* the time of the update, differs from the updatedAt the note had before,
\* and is later than the note's createdAt
C15_UpdatedAtRefreshed ==
    [][\A c \in Callers :
         Resolves(c, "updateNote")
         => LET before == GetNoteNow(calls[c].arg)
                after == GetNoteOf(isIndexedDBSupported', idb', ls', calls[c].arg)
            IN  /\ before.found /\ after.found
                /\ getTime(after.note.updatedAt) = now'
                /\ after.note.updatedAt # before.note.updatedAt
                /\ getTime(after.note.updatedAt) > getTime(after.note.createdAt)]_vars

\* C16: the id of the note a createNote call returns is the one generateId
\* made in that call, and no step of an updateNote call changes the ids the
\* store holds records under
C16_IdFromGenerator ==
    [][\A c \in Callers :
         /\ Resolves(c, "createNote")
            => calls'[c].ret.id \in {generateId(t, rng' - 1) : t \in 1..now'}
         /\ (calls[c].op = "updateNote" /\ InFlight(c))
            => {n.id : n \in idb'} = {n.id : n \in idb}
               /\ [i \in 1..Len(ls'.notes) |-> ls'.notes[i].id]
                    = [i \in 1..Len(ls.notes) |-> ls.notes[i].id]]_vars

\* C17: when createNote has resolved for an input whose title is absent,
\* undefined or the empty string, the note it returns and the note it stored
\* have the title 'Untitled Note'
C17_TitleDefault ==
    \A c \in Callers :
      (/\ Resolved(c, "createNote")
       /\ Get(calls[c].arg, "title") \in {Undef, EmptyText})
      => /\ Get(calls[c].ret, "title") = UntitledNote
         /\ GetNoteNow(calls[c].ret.id).found
         /\ Get(GetNoteNow(calls[c].ret.id).note, "title") = UntitledNote

\* C18: a call other than init() that starts while the facade is not Ready
\* is rejected in the step that starts it, and that step changes neither
\* backend and puts no request in a queue
C18_EarlyCallsFail ==
    [][\A c \in Callers :
         (/\ Changed(c)
          /\ calls'[c].op \notin {"none", "init"}
          /\ ~calls'[c].ready)
         => /\ calls'[c].pc = "rejected"
            /\ idb' = idb /\ ls' = ls
            /\ txQueue' = txQueue /\ openQueue' = openQueue]_vars

\* createNote was called while the constructor's init() was waiting for
\* indexedDB.open, and was rejected
C18_Witness ==
    \E c \in Callers :
      /\ calls["ctor"].pc = "open"
      /\ calls[c].op = "createNote" /\ ~calls[c].ready
      /\ calls[c].pc = "rejected" /\ calls[c].err = "TypeError"

\* the notes n of the store whose updatedAt is the latest one
Latest == {n \in StoreNotes :
             /\ ~Undefined(n, "updatedAt")
             /\ \A m \in StoreNotes :
                  ~Undefined(m, "updatedAt")
                  => getTime(m.updatedAt) <= getTime(n.updatedAt)}

\* C20: a getStorageStats() that has settled has resolved; its totalNotes is
\* the number of stored notes, its storageType names the backend that is
\* active, and its lastUpdated is null when the store is empty and the
\* latest updatedAt of the stored notes otherwise
C20_Stats ==
    \A c \in Callers :
      (calls[c].op = "getStorageStats" /\ Settled(c))
      => /\ calls[c].pc = "resolved"
         /\ calls[c].ret.totalNotes = Len(StoredSeq)
         /\ calls[c].ret.storageType
              = IF isIndexedDBSupported /\ db = "open" THEN "IndexedDB" ELSE "localStorage"
         /\ IF StoredSeq = <<>> THEN calls[c].ret.lastUpdated = Nil
            ELSE \E n \in Latest : calls[c].ret.lastUpdated = <<"ms", getTime(n.updatedAt)>>

\* the blob of a fallback that holds the records of the object store
MirrorBlob == Blob(JsonNotes(KeyOrder(idb)))

\* C19: a createNote or updateNote call that settles on IndexedDB settles as
\* the fallback settles the same call on a blob that holds the same notes:
\* both resolve or both reject
C19_SameOutcome ==
    [][\A c \in Callers :
         (/\ isIndexedDBSupported /\ calls[c].ready
          /\ calls[c].op \in {"createNote", "updateNote"}
          /\ InFlight(c) /\ calls'[c].pc \in {"resolved", "rejected"})
         => calls'[c].pc
              = SettlesOnFallback(calls[c].op, calls[c].arg, calls[c].upd, MirrorBlob)]_vars

\* what getNote(id) resolves with after the step
GetNoteNext(id) == GetNoteOf(isIndexedDBSupported', idb', ls', id)

\* the step leaves every note but the one of id as it is
OthersKept(id) == \A o \in Ids \ {id} : GetNoteNext(o) = GetNoteNow(o)

C22_ReadyStable ==
    [][/\ (\E c \in Slots : Resolved(c, "init"))
          => isIndexedDBSupported' = isIndexedDBSupported /\ db' = db
       /\ (\E c \in Slots : calls[c].op = "init" /\ calls[c].pc = "rejected")
          => \A c \in Slots : calls[c].op = "init" /\ InFlight(c)
                              => calls'[c].pc # "resolved"]_vars

\* C23: once deleteNote(id) has resolved, no step of a call other than
\* createNote and importData makes getNote(id) find a note again
C23_NoResurrection ==
    [][\A c \in Callers \cup Peers :
         (/\ Resolved(c, "deleteNote")
          /\ ~GetNoteNow(calls[c].arg).found
          /\ calls'[c] = calls[c])
         => \/ ~GetNoteNext(calls[c].arg).found
            \/ \E o \in Callers \cup Peers :
                 /\ calls'[o].op \in {"createNote", "importData"}
                 /\ calls'[o] # calls[o]]_vars

\* C24: when the last calls of the two callers are updateNote calls on the
\* same note that name different fields and both have resolved, the stored
\* note has the fields of both
C24_BothUpdatesKept ==
    \A c, o \in Callers \cup Peers :
      (/\ c # o
       /\ Resolved(c, "updateNote") /\ Resolved(o, "updateNote")
       /\ calls[o].arg = calls[c].arg
       /\ DOMAIN calls[o].upd \cap DOMAIN calls[c].upd = {})
      => /\ GetNoteNow(calls[c].arg).found
         /\ Agrees(GetNoteNow(calls[c].arg).note, calls[c].upd)
         /\ Agrees(GetNoteNow(calls[c].arg).note, calls[o].upd)

\* C25: when importData has been rejected, the store holds the notes it held
\* when the call started
C25_ImportAtomic ==
    \A c \in Callers :
      (calls[c].op = "importData" /\ calls[c].pc = "rejected")
      => StoreNotes = calls[c].before

(***************************************************************************)
(* Scheduling: the event loop runs every continuation that is queued as a  *)
(* microtask, and the engine answers every request with an event, which    *)
(* the event loop delivers once no microtask is pending                    *)
(***************************************************************************)
\* the continuation of each slot after an await on a settled promise runs;
\* the oldest indexedDB.open gets its onsuccess or onerror, and so does the
\* oldest request on the store
Fairness ==
    /\ \A c \in {"ctor"} \cup Callers :
         WF_vars(OpenThrew(c) \/ UpdateResume(c) \/ GetAllResume(c) \/ ImportResume(c))
    /\ SF_vars(OpenSuccess \/ OpenError)
    /\ SF_vars(IdbAdd \/ IdbPutEvent \/ IdbGetEvent \/ IdbGetAll \/ IdbIndexGetAll
                  \/ IdbDelete \/ IdbClear)

\* every call of the facade, by a caller that does not wait for init(), in
\* an event loop that runs what is queued
SpecLive == InitEarly /\ [][NextEarly]_vars /\ Fairness

PriorNoteA == BuildNote([title |-> TitleA], generateId(0, 0), 0, 0)
PriorNoteB == BuildNote([folder |-> FolderW], generateId(0, 1), 0, 0)

\* the database as earlier sessions left it: never opened, or with the
\* store 'notes' and the notes created in it
PriorEngines ==
    { FreshEngine } \cup
    { [names |-> {storeName}, records |-> R] : R \in SUBSET {PriorNoteA, PriorNoteB} }

\* the blob as earlier sessions left it
PriorBlobs ==
    { NoBlob, Blob(<<>>), Blob(<<PriorNoteA>>), Blob(<<PriorNoteB, PriorNoteA>>) }


\* init() by the constructor and once more by the caller, then reads
NextPrior ==
    \/ InitSteps
    \/ \E c \in Callers : StartInit(c)
    \/ \E c \in Callers : StartGetAllNotes(c)
    \/ \E c \in Callers : \E id \in {PriorNoteA.id, PriorNoteB.id} : StartGetNote(c, id)
    \/ IdbGetAll
    \/ IdbGetEvent

SpecPrior ==
    /\ ConstructorOn({TRUE}, PriorBlobs, PriorEngines, {"absent", "ok"})
    /\ awaitsInit = TRUE
    /\ [][NextPrior]_vars

SpecProbe ==
    /\ ConstructorOn(BOOLEAN, {NoBlob}, {FreshEngine},
                     {"absent", "null", "noOpen", "openThrows", "ok"})
    /\ awaitsInit = TRUE
    /\ [][NextEnv]_vars

\* C28: whatever window.indexedDB is (absent, null, without an open
\* function, with an open that throws or one that works), no exception
\* leaves checkIndexedDBSupport and the constructor: the facade is
\* constructed, with a boolean in isIndexedDBSupported
C28_FailsClosed ==
    /\ Constructed
    /\ isIndexedDBSupported \in BOOLEAN

(***************************************************************************)
(* NotesManager (src/js/notes.js) over the facade, on IndexedDB. An event  *)
(* handler takes a free slot of Handlers, runs to the call of the facade   *)
(* it awaits, and runs on, as a microtask, when that call has settled.     *)
(* The editor shows the content and the tags of the note it was given; the *)
(* user types in the title input.                                          *)
(***************************************************************************)
\* a click, a key or a timer is handled: the event loop is between tasks
\* and the app has awaited init() (app.js). The handler takes the free slot
\* that CHOOSE names, the slots being alike
HandlerStarts(c) ==
    /\ c \in Handlers
    /\ calls[c].pc = "idle"
    /\ c = CHOOSE o \in Handlers : calls[o].pc = "idle"
    /\ ~MicrotaskPending
    /\ Ready /\ isIndexedDBSupported /\ db = "open"

\* the updates saveCurrentNote() reads from the editor
EditorUpdates ==
    [title   |-> IF titleInput = EmptyText THEN UntitledNote ELSE titleInput,
     content |-> currentNote.content,
     tags    |-> currentNote.tags]

hasNoteChanged(updates) ==
    \/ updates.title # currentNote.title
    \/ updates.content # currentNote.content
    \/ updates.tags # currentNote.tags

\* the user types a title
TypeTitle(title) ==
    /\ currentNote # Nil /\ titleInput # Nil
    /\ ~MicrotaskPending
    /\ titleInput' = title
    /\ UNCHANGED <<isIndexedDBSupported, db, idb, ls, storageDefined, awaitsInit,
                   objectStoreNames, now, rng, calls, openQueue, txQueue, held,
                   nmNotes, currentNote, selecting, raced>>

\* loadNotes() up to its await
loadNotes(c) == HandlerStarts(c) /\ StartGetAllNotes(c)

\* createNewNote() up to its await, the folder filter being 'all'
createNewNote(c) ==
    /\ HandlerStarts(c)
    /\ StartCreateNote(c, [title |-> UntitledNote, content |-> EmptyText,
                           folder |-> DefaultFolder, tags |-> <<>>])

\* saveCurrentNote() up to its await; it returns at once when no note is
\* selected or nothing has changed
saveCurrentNote(c) ==
    /\ HandlerStarts(c)
    /\ currentNote # Nil /\ titleInput # Nil
    /\ hasNoteChanged(EditorUpdates)
    /\ StartUpdateNote(c, currentNote.id, EditorUpdates)

\* performDeleteNote(noteId) up to its await, for a note of the list
performDeleteNote(c, noteId) ==
    /\ HandlerStarts(c)
    /\ \E i \in 1..Len(nmNotes) : nmNotes[i].id = noteId
    /\ StartDeleteNote(c, noteId)

\* what a handler may change when it runs on
View(list, current, input) == [notes |-> list, currentNote |-> current, titleInput |-> input]

\* selectNote(noteId) from the search of the list on: the note becomes the
\* current one and the editor is rendered with it
selectNote(v, noteId) ==
    IF Find(v.notes, noteId) = Nil THEN v
    ELSE View(v.notes, Find(v.notes, noteId), Find(v.notes, noteId).title)

\* saveCurrentNote() after its await: this.currentNote.id throws when the
\* note has been deselected, and the catch block logs
AfterSave(call) ==
    IF call.pc = "rejected" \/ currentNote = Nil
    THEN View(nmNotes, currentNote, titleInput)
    ELSE View([i \in 1..Len(nmNotes) |->
                 IF i = FindIndex(nmNotes, currentNote.id) THEN call.ret ELSE nmNotes[i]],
              call.ret, titleInput)

\* performDeleteNote(noteId) after its await
AfterDelete(call) ==
    IF call.pc = "rejected" THEN View(nmNotes, currentNote, titleInput)
    ELSE IF currentNote # Nil /\ currentNote.id = call.arg
    THEN View(SelectSeq(nmNotes, LAMBDA n : n.id # call.arg), Nil, Nil)
    ELSE View(SelectSeq(nmNotes, LAMBDA n : n.id # call.arg), currentNote, titleInput)

\* the handler of slot c is over
Returned(c, v) ==
    /\ calls' = [calls EXCEPT ![c] = IdleCall]
    /\ nmNotes' = v.notes
    /\ currentNote' = v.currentNote
    /\ titleInput' = v.titleInput
    /\ selecting' = [selecting EXCEPT ![c] = Nil]

\* the handler of slot c runs on after its await, to its end or, in
\* createNewNote(), to the saveCurrentNote() that selectNote() awaits when a
\* note is selected and the editor has changes
Continue(c) ==
    /\ Pending(c)
    /\ LET call == calls[c]
       IN  CASE call.op = "getAllNotes" ->
                  Returned(c, View(IF call.pc = "resolved" THEN call.ret ELSE nmNotes,
                                   currentNote, titleInput))
             [] call.op = "deleteNote" -> Returned(c, AfterDelete(call))
             [] call.op = "updateNote" ->
                  Returned(c, IF selecting[c] = Nil THEN AfterSave(call)
                              ELSE selectNote(AfterSave(call), selecting[c]))
             [] call.op = "createNote" ->
                  IF call.pc = "rejected"
                  THEN Returned(c, View(nmNotes, currentNote, titleInput))
                  ELSE IF currentNote # Nil /\ titleInput # Nil /\ hasNoteChanged(EditorUpdates)
                  THEN /\ nmNotes' = <<call.ret>> \o nmNotes
                       /\ selecting' = [selecting EXCEPT ![c] = call.ret.id]
                       /\ calls' = [calls EXCEPT ![c] =
                                      [IdleCall EXCEPT !.op = "selectNote", !.pc = "resolved"]]
                       /\ UNCHANGED <<currentNote, titleInput>>
                  ELSE Returned(c, selectNote(View(<<call.ret>> \o nmNotes, currentNote,
                                                   titleInput), call.ret.id))
             [] OTHER -> FALSE
    /\ raced' = [o \in Handlers |->
                   IF o = c THEN (IF calls'[c].pc = "idle" THEN {} ELSE raced[c])
                   ELSE IF /\ calls[c].op = "deleteNote" /\ calls[c].pc = "resolved"
                           /\ currentNote # Nil /\ currentNote.id = calls[c].arg
                           /\ calls[o].pc # "idle"
                        THEN raced[o] \cup {calls[c].arg}
                        ELSE raced[o]]
    /\ UNCHANGED <<isIndexedDBSupported, db, idb, ls, storageDefined, awaitsInit,
                   objectStoreNames, now, rng, openQueue, txQueue, held>>

\* selectNote() in createNewNote(): await this.saveCurrentNote()
selectNoteSaves(c) ==
    /\ c \in Handlers
    /\ calls[c].op = "selectNote"
    /\ StartUpdateNote(c, currentNote.id, EditorUpdates)

\* the NotesManager: its handlers, the user at the title input, and the
\* events of the database
NextNotes ==
    \/ InitSteps
    \/ \E c \in Handlers : loadNotes(c)
    \/ \E c \in Handlers : createNewNote(c)
    \/ \E c \in Handlers : saveCurrentNote(c)
    \/ \E c \in Handlers : \E noteId \in Ids : performDeleteNote(c, noteId)
    \/ TypeTitle(TitleB)
    \/ \E c \in Handlers : Continue(c)
    \/ \E c \in Handlers : selectNoteSaves(c)
    \/ IdbAdd
    \/ IdbPutEvent
    \/ IdbGetEvent
    \/ IdbGetAll
    \/ IdbDelete

SpecNotes == Init /\ [][NextNotes]_vars

Listed(list, id) == \E i \in 1..Len(list) : list[i].id = id
Current(note, id) == note # Nil /\ note.id = id

\* C29: when performDeleteNote() of the selected note has run to its end,
\* no note is selected and the note is not in the list; and no handler that
\* was in flight when that happened puts the note back, in the list or as
\* the selected note, when it runs on
C29_DeletedStaysGone ==
    [][\A c \in Handlers :
         (Pending(c) /\ calls'[c] # calls[c])
         => /\ (/\ calls[c].op = "deleteNote" /\ calls[c].pc = "resolved"
                /\ Current(currentNote, calls[c].arg))
               => currentNote' = Nil /\ ~Listed(nmNotes', calls[c].arg)
            /\ \A id \in raced[c] :
                 (~Listed(nmNotes, id) /\ ~Current(currentNote, id))
                 => (~Listed(nmNotes', id) /\ ~Current(currentNote', id))]_vars

\* C30: when no handler of the NotesManager is in flight, the ids of the
\* notes in its list are the ids of the notes in the store
C30_ListMirrorsStore ==
    (\A c \in Handlers : calls[c].pc = "idle")
    => {nmNotes[i].id : i \in 1..Len(nmNotes)} = {n.id : n \in StoreNotes}

====
